---- MODULE Spec2Model ----
(***************************************************************************)
(* KataGoContributeEngine (katrain/core/contribute_engine.py): the session *)
(* store filled by the stdout reader thread, the buffer curator            *)
(* advance_showing_game, and the supervision of the katago subprocess.     *)
(*                                                                         *)
(* Times are in tenths of a second.  Session identifiers are opaque        *)
(* strings that are only compared for equality; the model names them       *)
(* 1, 2, ... in the order in which the engine first mentions them.         *)
(***************************************************************************)
EXTENDS Integers, Sequences, FiniteSets, TLC

VARIABLES active_games, finished_games, showing_game, elapsed, rd, cur, seen, nlines, env,
          katago_process, returncode, eof, terminated, er, ca, errors, sd, trial

storeVars == <<active_games, finished_games, showing_game, elapsed, cur, seen, nlines>>
procVars == <<katago_process, returncode, eof, terminated, er, ca, errors, sd>>
vars == <<active_games, finished_games, showing_game, elapsed, rd, cur, seen, nlines, env,
          katago_process, returncode, eof, terminated, er, ca, errors, sd, trial>>

(***************************************************************************)
(* Class constants, contribute_engine.py lines 21-24.                      *)
(***************************************************************************)
MAX_BUFFER_GAMES == 8
MOVE_SPEED == 5
SHOW_RESULT_TIME == 50
GIVE_UP_AFTER == 300

(***************************************************************************)
(* Bounds of the model.                                                    *)
(***************************************************************************)
NumGames == 2
MaxMoves == 1
MaxLines == 2

None == 0
NoAnalysis == "none"
Coords == {"D4", "pass"}
Tops == {"D4", "pass"}

Min(S) == CHOOSE x \in S : \A y \in S : x <= y

(***************************************************************************)
(* Wall-clock readings.  elapsed is time.time() - self.last_advance; the   *)
(* curator only compares it with the three thresholds, so the clock is     *)
(* sampled at and just past each of them, and everything later than        *)
(* GIVE_UP_AFTER is one reading.                                           *)
(***************************************************************************)
TimePoints == {0, MOVE_SPEED, MOVE_SPEED + 1, SHOW_RESULT_TIME, SHOW_RESULT_TIME + 1,
               GIVE_UP_AFTER, GIVE_UP_AFTER + 1}
Epoch == GIVE_UP_AFTER + 1

(***************************************************************************)
(* Move lists of a record: players alternate, Black first.                 *)
(***************************************************************************)
PlayerAt(i) == IF i % 2 = 1 THEN "B" ELSE "W"
MoveLists(n) == UNION {{[i \in 1..k |-> <<PlayerAt(i), c[i]>>] : c \in [1..k -> Coords]} : k \in 0..n}
ScriptLists(n) == {[i \in 1..k |-> <<PlayerAt(i), IF i = n THEN "pass" ELSE "D4">>] : k \in 0..n}

(***************************************************************************)
(* The move tree of one session (BaseGame / SGFNode), kept as the list of  *)
(* its nodes in creation order; node 1 is the root.                        *)
(***************************************************************************)
RootNode == [parent |-> 0, move |-> <<>>, analysis |-> NoAnalysis]
BaseGame == [nodes |-> <<RootNode>>, cn |-> 1]

children(game, n) == {i \in DOMAIN game.nodes : game.nodes[i].parent = n}
is_pass(node) == node.move # <<>> /\ node.move[2] = "pass"
next_player(node) == IF node.move = <<>> \/ node.move[1] = "W" THEN "B" ELSE "W"

\* SGFNode.play: the existing child for this move, or a new child
play_node(game, n, move) ==
    LET same == {i \in children(game, n) : game.nodes[i].move = move}
    IN  IF same # {}
        THEN [game |-> game, node |-> Min(same)]
        ELSE [game |-> [game EXCEPT !.nodes = Append(@, [parent |-> n, move |-> move,
                                                          analysis |-> NoAnalysis])],
              node |-> Len(game.nodes) + 1]

RECURSIVE sync_from(_, _, _)
sync_from(game, n, moves) ==
    IF moves = <<>>
    THEN [game |-> game, node |-> n]
    ELSE LET r == play_node(game, n, Head(moves))
         IN  sync_from(r.game, r.node, Tail(moves))

sync_branch(game, moves) == sync_from(game, 1, moves)

set_analysis(game, n, analysis) == [game EXCEPT !.nodes[n].analysis = analysis]
set_current_node(game, n) == [game EXCEPT !.cn = n]

\* BaseGame.play: apply the move at the current node and move there
play(game, move) ==
    LET r == play_node(game, game.cn, move)
    IN  set_current_node(r.game, r.node)

\* BaseGame.end_result: a result exists once two passes end the line
end_result(game) ==
    LET c == game.nodes[game.cn]
    IN  is_pass(c) /\ c.parent # 0 /\ is_pass(game.nodes[c.parent])

\* lines 47-54 without the analysis tests of lines 49-52
game_endedAnyPass(game) ==
    LET c == game.nodes[game.cn]
        g == IF is_pass(c) THEN play(game, <<next_player(c), "pass">>) ELSE game
    IN  [game |-> g, end_result |-> end_result(g)]

\* lines 47-54
game_ended(game) ==
    LET c == game.nodes[game.cn]
        g == IF is_pass(c) /\ c.analysis # NoAnalysis /\ c.analysis = "pass"
             THEN play(game, <<next_player(c), "pass">>)
             ELSE game
    IN  [game |-> g, end_result |-> end_result(g)]

(***************************************************************************)
(* self.active_games: a dict, i.e. key/value pairs in insertion order.     *)
(***************************************************************************)
Keys(a) == {a[i].id : i \in DOMAIN a}
Idx(a, g) == CHOOSE i \in DOMAIN a : a[i].id = g
Get(a, g) == a[Idx(a, g)].game
Put(a, g, game) ==
    IF g \in Keys(a)
    THEN [a EXCEPT ![Idx(a, g)].game = game]
    ELSE Append(a, [id |-> g, game |-> game])
Del(a, g) == SelectSeq(a, LAMBDA e : e.id # g)

(***************************************************************************)
(* Lines the engine writes to stdout.  A record is a JSON object with a    *)
(* gameId; top is the move of its first candidate.                         *)
(***************************************************************************)
\* a record lacks none or one of the fields that lines 174, 192 and 198 index
Fields == {"boardXSize", "moves", "turnNumber"}
Records(e) == [kind : {"record"}, gameId : 1..e.ids, moves : e.lists, top : e.tops,
               lacks : e.lacks]
NoRec == [kind |-> "none", gameId |-> None, moves |-> <<>>, top |-> NoAnalysis,
          lacks |-> "none"]
OtherLines == {[kind |-> k, gameId |-> None, moves |-> <<>>, top |-> NoAnalysis,
                lacks |-> "none"] : k \in {"text", "nogameid", "garbled"}}

\* the engine does not mention session n+1 before it has mentioned session n,
\* and plays moves in the sessions up to env.deep only;
\* a run with env.maxLines > 0 ends after that many lines
Lines ==
    IF env.maxLines > 0 /\ nlines >= env.maxLines
    THEN {}
    ELSE {l \in Records(env) : /\ l.gameId <= seen + 1
                               /\ l.moves = <<>> \/ l.gameId <= env.deep} \cup OtherLines

(***************************************************************************)
(* The threads' local variables.                                           *)
(*   rd  - _read_stdout_thread: pc, the last line read (line, analysis),   *)
(*         new_game, last_node, and whether current_game is still the object that    *)
(*         active_games holds under game_id ("store") or one that the      *)
(*         curator has deleted from the dict meanwhile ("orphan");         *)
(*         stale remembers that game_id was already in finished_games      *)
(*         when the line was read; log is the level at which the line      *)
(*         has been logged: "stderr" (line 206), "error" (line 204).       *)
(*   cur - advance_showing_game: pc and end_result; stuck remembers the    *)
(*         sessions that were stuck past GIVE_UP_AFTER when the invocation *)
(*         began.                                                          *)
(***************************************************************************)
RdLocals(pc) == [pc |-> pc, rec |-> NoRec, new_game |-> FALSE, held |-> "none",
                 last_node |-> 0, stale |-> FALSE, log |-> "none"]
CurLocals(pc) == [pc |-> pc, end_result |-> FALSE, stuck |-> {}]

World == [active |-> active_games, finished |-> finished_games, showing |-> showing_game,
          elapsed |-> elapsed, rd |-> rd, cur |-> cur]

InSync == {"get", "create", "sync", "attach", "place"}

(***************************************************************************)
(* _read_stdout_thread, lines 161-206: one step of the handling of a line. *)
(***************************************************************************)
\* lines 161-168, 205-206: readline, decode, parse
RdRead(W, line) ==
    IF line.kind = "record"
    THEN [W EXCEPT !.rd = [RdLocals("check") EXCEPT !.rec = line,
                                                    !.stale = line.gameId \in W.finished]]
    ELSE IF line.kind = "garbled"
    THEN [W EXCEPT !.rd = [RdLocals("except") EXCEPT !.rec = line]]
    ELSE [W EXCEPT !.rd = [RdLocals("loop") EXCEPT
                              !.rec = line,
                              !.log = IF line.kind = "text" THEN "stderr" ELSE "none"]]

\* lines 169-170 with the test of line 169 left out
RdCheckSkipped(W) == [W EXCEPT !.rd.pc = "get"]

\* lines 169-170
RdCheck(W) ==
    IF W.rd.rec.gameId \in W.finished
    THEN [W EXCEPT !.rd.pc = "loop"]
    ELSE [W EXCEPT !.rd.pc = "get"]

\* lines 171-173
RdGet(W) ==
    IF W.rd.rec.gameId \in Keys(W.active)
    THEN [W EXCEPT !.rd.pc = "sync", !.rd.new_game = FALSE, !.rd.held = "store"]
    ELSE [W EXCEPT !.rd.pc = "create", !.rd.new_game = TRUE]

\* lines 174-190
RdCreate(W) ==
    IF W.rd.rec.lacks = "boardXSize"
    THEN [W EXCEPT !.rd.pc = "except"]
    ELSE [W EXCEPT !.active = Put(@, W.rd.rec.gameId, BaseGame),
                   !.rd.pc = "sync", !.rd.held = "store"]

\* lines 191-193 with the moves replayed from the current node
RdSyncFromCurrent(W) ==
    IF W.rd.held = "store"
    THEN LET game == Get(W.active, W.rd.rec.gameId)
             r == sync_from(game, game.cn, W.rd.rec.moves)
         IN  [W EXCEPT !.active = Put(@, W.rd.rec.gameId, r.game),
                       !.rd.pc = "attach", !.rd.last_node = r.node]
    ELSE [W EXCEPT !.rd.pc = "attach"]

\* lines 191-193 with only the last move of the list played, at the current node
RdSyncLastMove(W) ==
    IF W.rd.held = "store"
    THEN LET game == Get(W.active, W.rd.rec.gameId)
             ms == W.rd.rec.moves
             r == IF ms = <<>> THEN [game |-> game, node |-> game.cn]
                  ELSE play_node(game, game.cn, ms[Len(ms)])
         IN  [W EXCEPT !.active = Put(@, W.rd.rec.gameId, r.game),
                       !.rd.pc = "attach", !.rd.last_node = r.node]
    ELSE [W EXCEPT !.rd.pc = "attach"]

\* lines 191-193
RdSync(W) ==
    IF W.rd.rec.lacks = "moves"
    THEN [W EXCEPT !.rd.pc = "except"]
    ELSE IF W.rd.held = "store"
    THEN LET r == sync_branch(Get(W.active, W.rd.rec.gameId), W.rd.rec.moves)
         IN  [W EXCEPT !.active = Put(@, W.rd.rec.gameId, r.game),
                       !.rd.pc = "attach", !.rd.last_node = r.node]
    ELSE [W EXCEPT !.rd.pc = "attach"]

\* line 194
RdAttach(W) ==
    IF W.rd.held = "store"
    THEN [W EXCEPT !.active = Put(@, W.rd.rec.gameId,
                                  set_analysis(Get(W.active, W.rd.rec.gameId),
                                               W.rd.last_node, W.rd.rec.top)),
                   !.rd.pc = "place"]
    ELSE [W EXCEPT !.rd.pc = "place"]

\* lines 195-201 without the test of line 195
RdPlaceAlways(W) ==
    IF W.rd.held = "store"
    THEN [W EXCEPT !.active = Put(@, W.rd.rec.gameId,
                                  set_current_node(Get(W.active, W.rd.rec.gameId),
                                                   W.rd.last_node)),
                   !.rd.pc = "loop"]
    ELSE [W EXCEPT !.rd.pc = "loop"]

\* lines 195-201
RdPlace(W) ==
    LET pc == IF W.rd.rec.lacks = "turnNumber" THEN "except" ELSE "loop"
    IN  IF W.rd.held = "store" /\ W.rd.new_game
        THEN [W EXCEPT !.active = Put(@, W.rd.rec.gameId,
                                      set_current_node(Get(W.active, W.rd.rec.gameId),
                                                       W.rd.last_node)),
                       !.rd.pc = pc]
        ELSE [W EXCEPT !.rd.pc = pc]

\* lines 202-204 with the exception passed on to line 209
RdExceptReturn(W) == [W EXCEPT !.rd.pc = "done"]

\* lines 202-204
RdExcept(W) == [W EXCEPT !.rd.pc = "loop", !.rd.log = "error"]

RdStep(W, line) ==
    CASE W.rd.pc = "read"   -> RdRead(W, line)
      [] W.rd.pc = "check"  -> RdCheck(W)
      [] W.rd.pc = "get"    -> RdGet(W)
      [] W.rd.pc = "create" -> RdCreate(W)
      [] W.rd.pc = "sync"   -> RdSync(W)
      [] W.rd.pc = "attach" -> RdAttach(W)
      [] W.rd.pc = "place"  -> RdPlace(W)
      [] W.rd.pc = "except" -> RdExcept(W)
      [] OTHER              -> W

(***************************************************************************)
(* advance_showing_game, lines 56-92: one step of an invocation.           *)
(***************************************************************************)
\* lines 63, 78 without the del
EvictNone(W) == W

\* del self.active_games[self.showing_game]; a reader that holds the deleted
\* object keeps it, detached from the dict
Evict(W) ==
    [W EXCEPT !.active = Del(@, W.showing),
              !.rd.held = IF W.rd.held = "store" /\ W.rd.rec.gameId = W.showing
                          THEN "orphan" ELSE @]

\* the sessions whose current node has no children, once GIVE_UP_AFTER has passed
StuckLong(W) ==
    IF W.elapsed > GIVE_UP_AFTER
    THEN {g \in Keys(W.active) : children(Get(W.active, g), Get(W.active, g).cn) = {}}
    ELSE {}

\* lines 57-58, 81
CurBegin(W) ==
    IF W.showing # None /\ W.showing \in Keys(W.active)
    THEN [W EXCEPT !.cur.pc = "ended", !.cur.stuck = StuckLong(W)]
    ELSE [W EXCEPT !.cur.pc = "select", !.cur.stuck = StuckLong(W)]

\* lines 59-60
CurEnded(W) ==
    LET r == game_ended(Get(W.active, W.showing))
    IN  [W EXCEPT !.active = Put(@, W.showing, r.game),
                  !.cur.pc = IF r.end_result THEN "finish" ELSE "pace",
                  !.cur.end_result = r.end_result]

\* lines 61-62 without the test of line 62
CurFinishNoWait(W) ==
    [W EXCEPT !.finished = @ \cup {W.showing}, !.cur.pc = "evict"]

\* lines 61-62
CurFinish(W) ==
    [W EXCEPT !.finished = @ \cup {W.showing},
              !.cur.pc = IF W.elapsed > SHOW_RESULT_TIME THEN "evict" ELSE "idle"]

\* lines 63-68 with the oldest session deleted instead of the displayed one
CurEvictOldest(W) == [W EXCEPT !.active = Tail(@), !.cur.pc = "clear"]

\* lines 63-68
CurEvict(W) == [Evict(W) EXCEPT !.cur.pc = "clear"]

\* line 69, line 80 without the assignment
CurClearKept(W) == [W EXCEPT !.cur = CurLocals("idle")]

\* line 69, line 80
CurClear(W) == [W EXCEPT !.showing = None, !.cur = CurLocals("idle")]

\* lines 70-75 without the branch of lines 75-80
CurPaceNoGiveUp(W, child) ==
    LET game == Get(W.active, W.showing)
    IN  IF (W.elapsed > MOVE_SPEED \/ Len(W.active) > MAX_BUFFER_GAMES)
           /\ children(game, game.cn) # {}
        THEN [W EXCEPT !.active = Put(@, W.showing, set_current_node(game, child)),
                       !.elapsed = 0,
                       !.cur = CurLocals("idle")]
        ELSE [W EXCEPT !.cur = CurLocals("idle")]

\* lines 70-75 without the second operand of "or" at line 70
CurPaceTimeOnly(W, child) ==
    LET game == Get(W.active, W.showing)
    IN  IF W.elapsed > MOVE_SPEED
        THEN IF children(game, game.cn) # {}
             THEN [W EXCEPT !.active = Put(@, W.showing, set_current_node(game, child)),
                            !.elapsed = 0,
                            !.cur = CurLocals("idle")]
             ELSE IF W.elapsed > GIVE_UP_AFTER
                  THEN [W EXCEPT !.cur.pc = "giveup"]
                  ELSE [W EXCEPT !.cur = CurLocals("idle")]
        ELSE [W EXCEPT !.cur = CurLocals("idle")]

\* lines 70-75 without the test of line 70
CurPaceEager(W, child) ==
    LET game == Get(W.active, W.showing)
    IN  IF children(game, game.cn) # {}
        THEN [W EXCEPT !.active = Put(@, W.showing, set_current_node(game, child)),
                       !.elapsed = 0,
                       !.cur = CurLocals("idle")]
        ELSE IF W.elapsed > GIVE_UP_AFTER
             THEN [W EXCEPT !.cur.pc = "giveup"]
             ELSE [W EXCEPT !.cur = CurLocals("idle")]

\* lines 70-75; child is the node redo(1) moves to
CurPace(W, child) ==
    LET game == Get(W.active, W.showing)
    IN  IF W.elapsed > MOVE_SPEED \/ Len(W.active) > MAX_BUFFER_GAMES
        THEN IF children(game, game.cn) # {}
             THEN [W EXCEPT !.active = Put(@, W.showing, set_current_node(game, child)),
                            !.elapsed = 0,
                            !.cur = CurLocals("idle")]
             ELSE IF W.elapsed > GIVE_UP_AFTER
                  THEN [W EXCEPT !.cur.pc = "giveup"]
                  ELSE [W EXCEPT !.cur = CurLocals("idle")]
        ELSE [W EXCEPT !.cur = CurLocals("idle")]

\* lines 76-79
CurGiveUp(W) == [Evict(W) EXCEPT !.cur.pc = "clear"]

\* lines 82-83; pick is the result of random.choice
CurSelect(W, pick) ==
    IF W.active # <<>>
    THEN [W EXCEPT !.showing = pick, !.cur.pc = "prefer"]
    ELSE [W EXCEPT !.cur = CurLocals("idle")]

\* lines 84-87: the first session, in dict order, whose last node is a pass
last_is_pass(game) == is_pass(game.nodes[Len(game.nodes)])

\* lines 84-87 without the loop
CurPreferNone(W) == [W EXCEPT !.cur.pc = "stamp"]

CurPrefer(W) ==
    LET ended == {i \in DOMAIN W.active : last_is_pass(W.active[i].game)}
    IN  [W EXCEPT !.showing = IF ended # {} THEN W.active[Min(ended)].id ELSE @,
                  !.cur.pc = "stamp"]

\* lines 88-92
CurStamp(W) == [W EXCEPT !.elapsed = 0, !.cur = CurLocals("idle")]

CurStep(W, pick, child) ==
    CASE W.cur.pc = "idle"   -> CurBegin(W)
      [] W.cur.pc = "ended"  -> CurEnded(W)
      [] W.cur.pc = "finish" -> CurFinish(W)
      [] W.cur.pc = "evict"  -> CurEvict(W)
      [] W.cur.pc = "clear"  -> CurClear(W)
      [] W.cur.pc = "pace"   -> CurPace(W, child)
      [] W.cur.pc = "giveup" -> CurGiveUp(W)
      [] W.cur.pc = "select" -> CurSelect(W, pick)
      [] W.cur.pc = "prefer" -> CurPrefer(W)
      [] W.cur.pc = "stamp"  -> CurStamp(W)

\* the values random.choice and redo(1) can produce in state W
Picks(W) == IF W.active = <<>> THEN {None} ELSE Keys(W.active)
Redos(W) ==
    IF W.showing # None /\ W.showing \in Keys(W.active)
    THEN LET game == Get(W.active, W.showing)
             cs == children(game, game.cn)
         IN  IF cs = {} THEN {0} ELSE cs
    ELSE {0}

(***************************************************************************)
(* A handler run from its first step to its last without interruption.     *)
(***************************************************************************)
RECURSIVE RunRd(_)
RunRd(W) == IF W.rd.pc = "loop" THEN W ELSE RunRd(RdStep(W, NoRec))

RECURSIVE RunCur(_, _, _)
RunCur(W, pick, child) ==
    IF W.cur.pc = "idle" THEN W ELSE RunCur(CurStep(W, pick, child), pick, child)

\* the outcome of the last experiment of TryTwice or TryPrefix
NoTrial == [kind |-> "none", rec |-> NoRec, start |-> <<>>, first |-> <<>>,
            second |-> <<>>, direct |-> <<>>]

Install(W) ==
    /\ active_games' = W.active
    /\ finished_games' = W.finished
    /\ showing_game' = W.showing
    /\ elapsed' = W.elapsed
    /\ rd' = W.rd
    /\ cur' = W.cur

Mention(line) ==
    /\ seen' = IF line.gameId > seen THEN line.gameId ELSE seen
    /\ nlines' = IF env.maxLines > 0 THEN nlines + 1 ELSE nlines

(***************************************************************************)
(* The subprocess as the engine object sees it.                            *)
(*   katago_process - "unset" (attribute never assigned), "none", "proc"   *)
(*   returncode     - what poll() returns: "None" while the process runs   *)
(*   eof[t]         - the stream read by thread t has reached end of file  *)
(*   terminated     - terminate() has been called                          *)
(*   er             - _read_stderr_thread: pc, and whether it has logged   *)
(*                    a line of stderr                                     *)
(*   ca[t]          - the activation of check_alive in reader t            *)
(*   errors         - the messages logged at error level, in order         *)
(*   sd             - the caller of shutdown and check_alive: pc and the   *)
(*                    local process of shutdown                            *)
(* Exit codes are kept as text; DLL_MISSING is the code of line 121.       *)
(***************************************************************************)
DLL_MISSING == "3221225781"
ExitCodes == {"0", "1", "2", DLL_MISSING}
Threads == {"out", "err"}

(***************************************************************************)
(* Serial schedule: each handler runs to completion.                       *)
(***************************************************************************)
\* the stdout reader takes one line through lines 159-206 and is back in
\* readline; none of its locals is read again before it is assigned
StdoutLine ==
    /\ rd.pc = "read"
    /\ cur.pc = "idle"
    /\ katago_process = "proc" /\ ~eof["out"]
    /\ \E line \in Lines :
          LET W == RunRd(RdRead(World, line))
          IN  /\ Install([W EXCEPT !.rd = RdLocals("read")])
              /\ Mention(line)
    /\ UNCHANGED <<env, trial, procVars>>

\* one invocation of advance_showing_game
AdvanceShowingGame ==
    /\ rd.pc = "read"
    /\ cur.pc = "idle"
    /\ \E pick \in Picks(World) :
          LET W1 == CurStep(World, pick, 0)
          IN  \E child \in Redos(CurStep(W1, pick, 0)) :
                 Install(RunCur(CurStep(W1, pick, child), pick, child))
    /\ UNCHANGED <<seen, nlines, env, trial, procVars>>

\* the wall clock moves on
Tick ==
    /\ \E t \in TimePoints : t > elapsed /\ t <= env.maxTime /\ elapsed' = t
    /\ UNCHANGED <<active_games, finished_games, showing_game, rd, cur, seen, nlines, env, trial, procVars>>

InitStore ==
    /\ active_games = <<>>
    /\ finished_games = {}
    /\ showing_game = None
    /\ elapsed = Epoch
    /\ rd = RdLocals("read")
    /\ cur = CurLocals("idle")
    /\ seen = 0
    /\ nlines = 0
    /\ trial = NoTrial

\* a thread's activation of check_alive: its position, code and died_msg;
\* exited remembers that the held process had exited when the call began
NoFrame == [pc |-> "none", code |-> "None", died_msg |-> <<>>, exited |-> FALSE]

\* start() has succeeded, both readers are blocked in readline
InitRunning ==
    /\ katago_process = "proc"
    /\ returncode = "None"
    /\ eof = [t \in Threads |-> FALSE]
    /\ terminated = FALSE
    /\ er = [pc |-> "read", logged |-> FALSE]
    /\ ca = [t \in Threads |-> NoFrame]
    /\ errors = <<>>
    /\ sd = [pc |-> "idle", process |-> "none"]

Init ==
    /\ InitStore
    /\ InitRunning
    /\ env = [ids |-> NumGames, lists |-> ScriptLists(1), tops |-> Tops, maxLines |-> 0, lacks |-> {"none"}, deep |-> NumGames, maxTime |-> Epoch]

Next == StdoutLine \/ AdvanceShowingGame \/ Tick

Spec == Init /\ [][Next]_vars

(***************************************************************************)
(* Threads: the stdout reader and the caller of advance_showing_game run   *)
(* concurrently and interleave between any two steps.                      *)
(***************************************************************************)
\* line 161: readline returns a line
ReadLine ==
    /\ rd.pc = "read"
    /\ ~eof["out"]
    /\ \E line \in Lines : Install(RdRead(World, line)) /\ Mention(line)
    /\ UNCHANGED <<env, trial, procVars>>

RdAt(pc) ==
    /\ rd.pc = pc
    /\ Install(RdStep(World, NoRec))
    /\ UNCHANGED <<seen, nlines, env, trial, procVars>>

CheckFinished == RdAt("check")
LookUp == RdAt("get")
CreateGame == RdAt("create")
SyncBranch == RdAt("sync")
SetAnalysis == RdAt("attach")
PlaceCurrent == RdAt("place")
HandleError == RdAt("except")

\* line 159: the while test
LoopTest ==
    /\ rd.pc = "loop"
    /\ rd' = [rd EXCEPT !.pc = IF katago_process = "proc" THEN "read" ELSE "done"]
    /\ UNCHANGED <<storeVars, env, trial, procVars>>

CurAt(pc) ==
    /\ cur.pc = pc
    /\ \E pick \in Picks(World), child \in Redos(World) : Install(CurStep(World, pick, child))
    /\ UNCHANGED <<seen, nlines, env, trial, procVars>>

BeginAdvance == CurAt("idle")
GameEnded == CurAt("ended")
MarkFinished == CurAt("finish")
EvictFinished == CurAt("evict")
ClearShowing == CurAt("clear")
PaceOrGiveUp == CurAt("pace")
EvictStuck == CurAt("giveup")
SelectRandom == CurAt("select")
PreferEnded == CurAt("prefer")
StampAdvance == CurAt("stamp")

InitThreads ==
    /\ InitStore
    /\ InitRunning
    /\ env = [ids |-> 1, lists |-> ScriptLists(MaxMoves), tops |-> Tops, maxLines |-> 0, lacks |-> {"none"}, deep |-> 1, maxTime |-> Epoch]

NextThreads ==
    \/ ReadLine \/ CheckFinished \/ LookUp \/ CreateGame \/ SyncBranch \/ SetAnalysis
    \/ PlaceCurrent \/ HandleError \/ LoopTest
    \/ BeginAdvance \/ GameEnded \/ MarkFinished \/ EvictFinished \/ ClearShowing
    \/ PaceOrGiveUp \/ EvictStuck \/ SelectRandom \/ PreferEnded \/ StampAdvance
    \/ Tick

SpecThreads == InitThreads /\ [][NextThreads]_vars

(***************************************************************************)
(* Synchronization alone: one session, any move lists of up to two moves,  *)
(* MaxLines lines.                                                         *)
(***************************************************************************)
InitSync ==
    /\ InitStore
    /\ InitRunning
    /\ env = [ids |-> 1, lists |-> MoveLists(2), tops |-> Tops, maxLines |-> MaxLines, lacks |-> {"none"}, deep |-> 1, maxTime |-> Epoch]

\* one line taken through the handler, from state W
Process(W, line) == [RunRd(RdRead(W, line)) EXCEPT !.rd = RdLocals("read")]

\* the same record processed twice in a row, after the lines of the run
TryTwice ==
    /\ rd.pc = "read" /\ cur.pc = "idle"
    /\ nlines = env.maxLines /\ trial = NoTrial
    /\ \E r \in {l \in Records(env) : l.gameId <= seen + 1} :
          LET W1 == Process(World, r)
              W2 == Process(W1, r)
          IN  trial' = [kind |-> "twice", rec |-> r, start |-> active_games,
                        first |-> W1.active, second |-> W2.active, direct |-> W1.active]
    /\ UNCHANGED <<storeVars, rd, env, procVars>>

\* a move list, then the same list with one more move; and the longer list alone
TryPrefix ==
    /\ rd.pc = "read" /\ cur.pc = "idle"
    /\ nlines = env.maxLines /\ trial = NoTrial
    /\ \E r \in {l \in Records(env) : l.gameId <= seen + 1}, c \in Coords, t \in env.tops :
          LET longer == [r EXCEPT !.moves = Append(@, <<PlayerAt(Len(@) + 1), c>>), !.top = t]
              W1 == Process(World, r)
              W2 == Process(W1, longer)
              Wd == Process(World, longer)
          IN  /\ longer.moves \in env.lists
              /\ trial' = [kind |-> "prefix", rec |-> longer, start |-> active_games,
                            first |-> W1.active, second |-> W2.active, direct |-> Wd.active]
    /\ UNCHANGED <<storeVars, rd, env, procVars>>

NextSync == StdoutLine \/ TryTwice \/ TryPrefix

SpecSync == InitSync /\ [][NextSync]_vars

(***************************************************************************)
(* A burst of new sessions: MAX_BUFFER_GAMES + 2 sessions, each mentioned  *)
(* with an empty move list.                                                *)
(***************************************************************************)
InitBurst ==
    /\ InitStore
    /\ InitRunning
    /\ env = [ids |-> MAX_BUFFER_GAMES + 2, lists |-> {<<>>}, tops |-> Tops, maxLines |-> 0, lacks |-> {"none"}, deep |-> MAX_BUFFER_GAMES + 2, maxTime |-> Epoch]

\* the burst arrives faster than the clock is read
NextBurst == StdoutLine \/ AdvanceShowingGame

SpecBurst == InitBurst /\ [][NextBurst]_vars

BoundedOccupancy == Len(active_games) <= MAX_BUFFER_GAMES + 1

RdMoved == rd'.pc # rd.pc
CurMoved == cur'.pc # cur.pc
Displayed == Get(active_games, showing_game)

\* C3 as claimed - Give-up bound for any session: every session of active_games
\* whose current node has no children once more than GIVE_UP_AFTER has elapsed
\* is out of active_games when the invocation that began then returns.
GiveUpAnySession ==
    [][cur.pc # "idle" /\ cur'.pc = "idle" => cur.stuck \cap Keys(active_games') = {}]_vars

\* C3 - Give-up bound: an invocation that finds, at lines 70-75, the displayed
\* session's current node without children and more than GIVE_UP_AFTER elapsed
\* goes on to delete that session from active_games.
GiveUpBound ==
    [][ /\ ( /\ cur.pc = "pace" /\ CurMoved
             /\ children(Displayed, Displayed.cn) = {}
             /\ elapsed > GIVE_UP_AFTER ) => cur'.pc = "giveup"
        /\ cur.pc = "giveup" /\ CurMoved =>
               /\ showing_game \in Keys(active_games)
               /\ showing_game \notin Keys(active_games')
               /\ cur'.pc = "clear" ]_vars

\* the curator has just given up on the displayed session
GiveUpBoundWitness ==
    /\ cur.pc = "clear" /\ ~cur.end_result
    /\ showing_game \in cur.stuck
    /\ showing_game \notin Keys(active_games)

\* C4 - Store accesses are mutually exclusive: the stdout reader is never
\* between its finished-set test and the end of synchronization while an
\* invocation of advance_showing_game is under way.
ExclusiveStoreAccess == ~(rd.pc \in InSync /\ cur.pc # "idle")

\* C5 - Displayed-pointer validity: between invocations showing_game is None or
\* a key of active_games; keys are deleted only by the curator's two evictions,
\* which delete the displayed key and clear the pointer before returning.
DisplayedPointerValid ==
    /\ [](cur.pc = "idle" => showing_game = None \/ showing_game \in Keys(active_games))
    /\ [][ /\ Keys(active_games) \ Keys(active_games') # {} =>
                  /\ cur.pc \in {"evict", "giveup"} /\ cur'.pc = "clear"
                  /\ Keys(active_games) \ Keys(active_games') = {showing_game}
           /\ cur.pc = "clear" /\ CurMoved => showing_game' = None /\ cur'.pc = "idle" ]_vars

\* a finished session has been evicted and the pointer cleared
DisplayedPointerWitness ==
    /\ cur.pc = "idle" /\ showing_game = None
    /\ finished_games # {}
    /\ finished_games \cap Keys(active_games) = {}

(***************************************************************************)
(* Properties of synchronization.                                          *)
(***************************************************************************)
RECURSIVE node_at(_, _, _)
node_at(game, n, moves) ==
    IF moves = <<>> THEN n
    ELSE LET cs == {i \in children(game, n) : game.nodes[i].move = Head(moves)}
         IN  IF cs = {} THEN 0 ELSE node_at(game, Min(cs), Tail(moves))

Shape(game) == [i \in DOMAIN game.nodes |-> <<game.nodes[i].parent, game.nodes[i].move>>]
NoDuplicates(game) ==
    \A i, j \in DOMAIN game.nodes :
        i # j => Shape(game)[i] # Shape(game)[j]
Butlast(q) == SubSeq(q, 1, Len(q) - 1)

\* C6 - Idempotent synchronization: the same record processed twice in a row
\* leaves active_games (tree, analysis, current node of every session) as the
\* first processing left it.
IdempotentSync == trial.kind = "twice" => trial.second = trial.first

\* a record extended an existing session, and was then processed again
IdempotentSyncWitness ==
    /\ trial.kind = "twice"
    /\ trial.start # <<>>
    /\ Shape(Get(trial.first, trial.rec.gameId)) # Shape(Get(trial.start, trial.rec.gameId))

TrialFirst == Get(trial.first, trial.rec.gameId)
TrialSecond == Get(trial.second, trial.rec.gameId)
TrialDirect == Get(trial.direct, trial.rec.gameId)
AddsOneNode ==
    /\ Len(TrialSecond.nodes) = Len(TrialFirst.nodes) + 1
    /\ Butlast(Shape(TrialSecond)) = Shape(TrialFirst)
    /\ TrialSecond.nodes[Len(TrialSecond.nodes)].parent
          = node_at(TrialFirst, 1, Butlast(trial.rec.moves))
    /\ TrialSecond.nodes[Len(TrialSecond.nodes)].move
          = trial.rec.moves[Len(trial.rec.moves)]

\* C7 as claimed - Prefix tolerance: [m1..mk] and then [m1..mk+1] always adds
\* exactly one node, under the node of mk, without duplicates, and gives the
\* tree that [m1..mk+1] alone gives.
PrefixAlwaysAddsOne ==
    trial.kind = "prefix" /\ Len(trial.rec.moves) >= 2 =>
        /\ AddsOneNode
        /\ NoDuplicates(TrialSecond)
        /\ Shape(TrialSecond) = Shape(TrialDirect)

\* C7 - Prefix tolerance: [m1..mk] and then [m1..mk+1] adds exactly one node,
\* for mk+1 under the node of mk, unless that node is in the tree already, and
\* then it adds none; it creates no duplicate and gives the tree that
\* [m1..mk+1] alone gives.
PrefixTolerance ==
    trial.kind = "prefix" =>
        /\ IF node_at(TrialFirst, 1, trial.rec.moves) = 0
           THEN AddsOneNode
           ELSE Shape(TrialSecond) = Shape(TrialFirst)
        /\ NoDuplicates(TrialSecond)
        /\ Shape(TrialSecond) = Shape(TrialDirect)

\* the longer list added its node to a session that had the shorter one
PrefixToleranceWitness ==
    /\ trial.kind = "prefix"
    /\ Len(trial.rec.moves) = 2
    /\ trial.start # <<>>
    /\ Len(TrialSecond.nodes) = Len(TrialFirst.nodes) + 1

\* C8 - Current-node placement: a record for an unseen session id creates the
\* session and leaves its current node on the node reached by replaying the
\* move list; no other step of the stdout reader, and so no record for a
\* session that is already active, moves the current node of any session.
CurrentNodePlacement ==
    [][RdMoved =>
         LET id == rd.rec.gameId
             placed == Get(active_games', id)
         IN  /\ rd.pc = "get" /\ id \notin Keys(active_games) =>
                    rd'.pc = "create" /\ rd'.new_game
             /\ rd.pc = "get" /\ id \in Keys(active_games) =>
                    rd'.pc = "sync" /\ ~rd'.new_game
             /\ rd.pc = "create" => id \in Keys(active_games')
             /\ rd.pc = "place" /\ rd.new_game /\ rd.held = "store" =>
                    /\ placed.cn # 0
                    /\ placed.cn = node_at(placed, 1, rd.rec.moves)
             /\ ~(rd.pc = "place" /\ rd.new_game) =>
                    \A k \in Keys(active_games) :
                        /\ k \in Keys(active_games')
                        /\ Get(active_games', k).cn = Get(active_games, k).cn ]_vars

\* a record for an active session was synchronized to a node other than the
\* session's current node, and the current node stayed
CurrentNodePlacementWitness ==
    /\ rd.pc = "loop" /\ rd.rec.kind = "record"
    /\ ~rd.new_game /\ rd.held = "store"
    /\ rd.last_node # Get(active_games, rd.rec.gameId).cn

(***************************************************************************)
(* The subprocess and its two readers: start, the end of the streams,      *)
(* check_alive line by line in each reader, and shutdown.                  *)
(***************************************************************************)
ReaderPc(t) == IF t = "out" THEN rd.pc ELSE er.pc
SetReader(t, pc) ==
    IF t = "out" THEN rd' = [rd EXCEPT !.pc = pc] /\ er' = er
                 ELSE er' = [er EXCEPT !.pc = pc] /\ rd' = rd
ProcFrame == <<active_games, finished_games, showing_game, elapsed, cur, seen, nlines, env, trial>>

\* lines 122 and 124-125, with os_error ""
DiedMsg(code) == IF code = DLL_MISSING THEN <<"dll">> ELSE <<"died", "status", code>>

\* lines 101-114 without the return of line 110
StartNoReturn ==
    /\ katago_process = "unset" /\ errors = <<>> /\ sd.pc = "idle"
    /\ \/ /\ katago_process' = "proc"
          /\ errors' = errors
       \/ /\ errors' = Append(errors, <<"start failed">>)
          /\ UNCHANGED katago_process
    /\ rd' = [rd EXCEPT !.pc = "loop"]
    /\ er' = [er EXCEPT !.pc = "loop"]
    /\ UNCHANGED <<ProcFrame, returncode, eof, terminated, ca, sd>>

\* lines 101-114
Start ==
    /\ katago_process = "unset" /\ errors = <<>> /\ sd.pc = "idle"
    /\ \/ /\ katago_process' = "proc"
          /\ rd' = [rd EXCEPT !.pc = "loop"]
          /\ er' = [er EXCEPT !.pc = "loop"]
          /\ errors' = errors
       \/ /\ errors' = Append(errors, <<"start failed">>)
          /\ UNCHANGED <<katago_process, rd, er>>
    /\ UNCHANGED <<ProcFrame, returncode, eof, terminated, ca, sd>>

\* the subprocess exits, by itself or on the signal of terminate()
ProcessExit ==
    /\ katago_process # "unset" /\ returncode = "None"
    /\ \E code \in ExitCodes \cup (IF terminated THEN {"-15"} ELSE {}) : returncode' = code
    /\ UNCHANGED <<ProcFrame, rd, katago_process, eof, terminated, er, ca, errors, sd>>

\* the stream that thread t reads reaches its end
CloseStream(t) ==
    /\ katago_process # "unset" /\ ~eof[t]
    /\ eof' = [eof EXCEPT ![t] = TRUE]
    /\ UNCHANGED <<ProcFrame, rd, katago_process, returncode, terminated, er, ca, errors, sd>>

\* lines 146-151: stderr gives a line, which is logged
ErrLine ==
    /\ er.pc = "read" /\ ~eof["err"]
    /\ er' = [er EXCEPT !.pc = "loop", !.logged = TRUE]
    /\ UNCHANGED <<ProcFrame, rd, katago_process, returncode, eof, terminated, ca, errors, sd>>

\* line 144: the while test
ErrLoopTest ==
    /\ er.pc = "loop"
    /\ er' = [er EXCEPT !.pc = IF katago_process = "proc" THEN "read" ELSE "done"]
    /\ UNCHANGED <<ProcFrame, rd, katago_process, returncode, eof, terminated, ca, errors, sd>>

\* lines 146-147 and 152-153, 161-162 and 207-208: readline returns nothing
EndOfStream(t) ==
    /\ ReaderPc(t) = "read" /\ eof[t]
    /\ IF katago_process = "proc"
       THEN /\ SetReader(t, "alive")
            /\ ca' = [ca EXCEPT ![t] = [NoFrame EXCEPT !.pc = "l117",
                                                       !.exited = returncode # "None"]]
       ELSE /\ SetReader(t, "loop")
            /\ ca' = ca
    /\ UNCHANGED <<ProcFrame, katago_process, returncode, eof, terminated, errors, sd>>

\* a step of check_alive that changes the frame of thread t only
CaGoto(t, frame) ==
    /\ ca' = [ca EXCEPT ![t] = frame]
    /\ UNCHANGED <<ProcFrame, rd, er, katago_process, returncode, eof, terminated, errors, sd>>

\* an exception leaves check_alive and is caught at line 154 or 209: the
\* reader returns
CaLeave(t, pc) ==
    /\ SetReader(t, pc)
    /\ ca' = [ca EXCEPT ![t] = NoFrame]
    /\ UNCHANGED <<ProcFrame, katago_process, returncode, eof, terminated, errors, sd>>

\* line 117, left operand of "and"
CaHeld(t) ==
    /\ ca[t].pc = "l117"
    /\ CaGoto(t, [ca[t] EXCEPT !.pc = IF katago_process = "proc" THEN "l117poll" ELSE "l119"])

\* lines 117-118 and 132, right operand: poll() of the attribute read again
CaPoll(t) ==
    /\ ca[t].pc = "l117poll"
    /\ IF katago_process # "proc" THEN CaLeave(t, "done")
       ELSE IF returncode = "None" THEN CaLeave(t, "loop")
       ELSE CaGoto(t, [ca[t] EXCEPT !.pc = "l119"])

\* line 119
CaTest(t) ==
    /\ ca[t].pc = "l119"
    /\ CaGoto(t, [ca[t] EXCEPT !.pc = IF katago_process = "proc" THEN "l120" ELSE "l130"])

\* lines 120-125, left operand of "and"
CaCodeHeld(t) ==
    /\ ca[t].pc = "l120"
    /\ CaGoto(t, IF katago_process = "proc"
                 THEN [ca[t] EXCEPT !.pc = "l120poll"]
                 ELSE [ca[t] EXCEPT !.pc = "l126", !.code = "None",
                                    !.died_msg = DiedMsg("None")])

\* lines 120-125, right operand: poll() of the attribute read again
CaCode(t) ==
    /\ ca[t].pc = "l120poll"
    /\ IF katago_process # "proc" THEN CaLeave(t, "done")
       ELSE CaGoto(t, [ca[t] EXCEPT !.pc = "l126", !.code = returncode,
                                    !.died_msg = DiedMsg(returncode)])

\* lines 126-127 without the test of line 126
CaLogAlways(t) ==
    /\ ca[t].pc = "l126"
    /\ errors' = Append(errors, ca[t].died_msg)
    /\ ca' = [ca EXCEPT ![t].pc = "l128"]
    /\ UNCHANGED <<ProcFrame, rd, er, katago_process, returncode, eof, terminated, sd>>

\* lines 126-127
CaLog(t) ==
    /\ ca[t].pc = "l126"
    /\ errors' = IF ca[t].code # "1" THEN Append(errors, ca[t].died_msg) ELSE errors
    /\ ca' = [ca EXCEPT ![t].pc = "l128"]
    /\ UNCHANGED <<ProcFrame, rd, er, katago_process, returncode, eof, terminated, sd>>

\* line 128
CaClear(t) ==
    /\ ca[t].pc = "l128"
    /\ katago_process' = "none"
    /\ ca' = [ca EXCEPT ![t].pc = "l131"]
    /\ UNCHANGED <<ProcFrame, rd, er, returncode, eof, terminated, errors, sd>>

\* line 130
CaNoProcess(t) ==
    /\ ca[t].pc = "l130"
    /\ CaGoto(t, [ca[t] EXCEPT !.pc = "l131", !.died_msg = <<"died", "">>])

\* line 131, caught at line 154 or 209
CaRaise(t) ==
    /\ ca[t].pc = "l131"
    /\ CaLeave(t, "done")

\* lines 135-136
ShutdownBegin ==
    /\ sd.pc = "idle"
    /\ katago_process # "unset" \/ errors # <<>>
    /\ sd' = IF katago_process = "unset" THEN [sd EXCEPT !.pc = "error"]
             ELSE IF katago_process = "proc" THEN [pc |-> "l137", process |-> "proc"]
             ELSE [sd EXCEPT !.pc = "join_err"]
    /\ UNCHANGED <<ProcFrame, rd, er, katago_process, returncode, eof, terminated, ca, errors>>

\* line 137
ShutdownClear ==
    /\ sd.pc = "l137"
    /\ katago_process' = "none"
    /\ sd' = [sd EXCEPT !.pc = "l138"]
    /\ UNCHANGED <<ProcFrame, rd, er, returncode, eof, terminated, ca, errors>>

\* line 138 without the call of terminate()
ShutdownTerminateSkipped ==
    /\ sd.pc = "l138"
    /\ sd' = [sd EXCEPT !.pc = "join_err"]
    /\ UNCHANGED <<ProcFrame, rd, er, katago_process, returncode, eof, terminated, ca, errors>>

\* line 138
ShutdownTerminate ==
    /\ sd.pc = "l138"
    /\ terminated' = TRUE
    /\ sd' = [sd EXCEPT !.pc = "join_err"]
    /\ UNCHANGED <<ProcFrame, rd, er, katago_process, returncode, eof, ca, errors>>

\* lines 139-141, stderr_thread: None when start() failed
JoinStderr ==
    /\ sd.pc = "join_err"
    /\ er.pc \in {"new", "done"}
    /\ sd' = [sd EXCEPT !.pc = "join_out"]
    /\ UNCHANGED <<ProcFrame, rd, er, katago_process, returncode, eof, terminated, ca, errors>>

\* lines 139-141, stdout_thread, without the join
JoinStdoutNoWait ==
    /\ sd.pc = "join_out"
    /\ sd' = [sd EXCEPT !.pc = "returned"]
    /\ UNCHANGED <<ProcFrame, rd, er, katago_process, returncode, eof, terminated, ca, errors>>

\* lines 139-141, stdout_thread
JoinStdout ==
    /\ sd.pc = "join_out"
    /\ rd.pc \in {"new", "done"}
    /\ sd' = [sd EXCEPT !.pc = "returned"]
    /\ UNCHANGED <<ProcFrame, rd, er, katago_process, returncode, eof, terminated, ca, errors>>

\* line 117 in a call of check_alive(exception_if_dead=False) made from
\* outside the readers on an engine whose spawn failed: the attribute read
\* raises AttributeError.  On a started engine the call reads and returns.
CheckAliveNotStarted ==
    /\ sd.pc = "idle"
    /\ katago_process = "unset" /\ errors # <<>>
    /\ sd' = [sd EXCEPT !.pc = "ca_error"]
    /\ UNCHANGED <<ProcFrame, rd, er, katago_process, returncode, eof, terminated, ca, errors>>

\* __init__, lines 30-36, before start() at line 45
InitNotStarted ==
    /\ active_games = <<>>
    /\ finished_games = {}
    /\ showing_game = None
    /\ elapsed = Epoch
    /\ rd = RdLocals("new")
    /\ cur = CurLocals("idle")
    /\ seen = 0
    /\ nlines = 0
    /\ trial = NoTrial
    /\ katago_process = "unset"
    /\ returncode = "None"
    /\ eof = [t \in Threads |-> FALSE]
    /\ terminated = FALSE
    /\ er = [pc |-> "new", logged |-> FALSE]
    /\ ca = [t \in Threads |-> NoFrame]
    /\ errors = <<>>
    /\ sd = [pc |-> "idle", process |-> "none"]

InitProc ==
    /\ InitNotStarted
    /\ env = [ids |-> 1, lists |-> {<<>>}, tops |-> {"D4"}, maxLines |-> 0, lacks |-> Fields \cup {"none"}, deep |-> 1, maxTime |-> Epoch]

CheckAlive(t) ==
    \/ CaHeld(t) \/ CaPoll(t) \/ CaTest(t) \/ CaCodeHeld(t) \/ CaCode(t)
    \/ CaLog(t) \/ CaClear(t) \/ CaNoProcess(t) \/ CaRaise(t)

NextProc ==
    \/ Start \/ ProcessExit
    \/ \E t \in Threads : CloseStream(t) \/ EndOfStream(t) \/ CheckAlive(t)
    \/ ReadLine \/ CheckFinished \/ LookUp \/ CreateGame \/ SyncBranch \/ SetAnalysis
    \/ PlaceCurrent \/ HandleError \/ LoopTest
    \/ ErrLine \/ ErrLoopTest
    \/ ShutdownBegin \/ ShutdownClear \/ ShutdownTerminate \/ JoinStderr \/ JoinStdout
    \/ CheckAliveNotStarted

SpecProc == InitProc /\ [][NextProc]_vars

\* the death messages among the error-level log lines
Deaths == SelectSeq(errors, LAMBDA m : m[1] \in {"dll", "died"})

\* C9 - Engine death is reported at most once: whatever the interleaving of
\* the two readers in check_alive, with shutdown not called, at most one death
\* message is logged, and it is the one that the exit code of the subprocess
\* calls for.
DeathReportedOnce ==
    sd.pc = "idle" =>
        /\ Len(Deaths) <= 1
        /\ \A i \in 1..Len(Deaths) : Deaths[i] = DiedMsg(returncode)

\* C10 - Death classification: a call of check_alive(exception_if_dead=True)
\* that began with the held subprocess exited, shutdown not called, raises
\* the missing-DLL message when the exit code is DLL_MISSING, and otherwise
\* the generic message with that exit code.
DeathClassification ==
    \A t \in Threads :
        sd.pc = "idle" /\ ca[t].pc = "l131" /\ ca[t].exited =>
            ca[t].died_msg = DiedMsg(returncode)

CaMoved(t) == ca'[t] # ca[t]
Last(q) == q[Len(q)]
Range(q) == {q[i] : i \in DOMAIN q}

CheckAliveEffect ==
    [][\A t \in Threads : sd.pc = "idle" /\ CaMoved(t) /\ ca'[t].pc = "none" =>
          \/ /\ ca[t].pc = "l131"
             /\ ReaderPc(t)' = "done"
             /\ katago_process' = "none"
             /\ returncode # "None"
          \/ /\ ca[t].pc = "l117poll"
             /\ ReaderPc(t)' = "loop"
             /\ returncode = "None"
             /\ katago_process' = "proc" /\ katago_process = "proc"
             /\ UNCHANGED <<active_games, finished_games, showing_game>> ]_vars

\* C13 - Quiescence after shutdown: once shutdown() has returned both readers
\* have left their loops, and in no later step does a reader read a stream,
\* run check_alive, or change active_games or a session's tree.
QuiescenceAfterShutdown ==
    /\ [](sd.pc = "returned" =>
            /\ rd.pc = "done" /\ er.pc = "done"
            /\ \A t \in Threads : ca[t].pc = "none")
    /\ [][sd.pc = "returned" =>
            /\ rd' = rd /\ er' = er /\ ca' = ca
            /\ UNCHANGED <<active_games, finished_games, showing_game, seen>> ]_vars

\* shutdown() has terminated the subprocess and returned, after the stdout
\* reader had created a session
QuiescenceWitness ==
    /\ sd.pc = "returned" /\ terminated
    /\ rd.pc = "done" /\ er.pc = "done"
    /\ active_games # <<>>

(***************************************************************************)
(* Properties of the handling of stdout lines.                             *)
(***************************************************************************)
\* a line that cannot be parsed, or a record whose handling raises at rd.pc
Raises ==
    \/ rd.pc = "read" /\ ~eof["out"] /\ rd'.rec.kind = "garbled"
    \/ rd.pc = "create" /\ rd.rec.lacks = "boardXSize"
    \/ rd.pc = "sync" /\ rd.rec.lacks = "moves"
    \/ rd.pc = "place" /\ rd.rec.lacks = "turnNumber"

\* C14 - A bad line never terminates the stdout reader: a line that starts
\* with '{' and cannot be parsed, or a record whose handling raises, takes the
\* reader to lines 202-204, where it is logged at error level; the reader
\* goes back to the while test and, the process reference being held, to
\* readline. The reader leaves its loop only at a while test that finds no
\* reference, or out of check_alive.
BadLineContained ==
    [][RdMoved =>
          /\ Raises => rd'.pc = "except"
          /\ rd.pc = "except" => rd'.pc = "loop" /\ rd'.log = "error"
          /\ rd.pc = "loop" /\ katago_process = "proc" => rd'.pc = "read"
          /\ rd'.pc = "done" =>
                 \/ rd.pc = "loop" /\ katago_process # "proc"
                 \/ rd.pc = "alive" ]_vars

\* a record whose handling raised has been logged, and the reader is in
\* readline again
BadLineContainedWitness ==
    /\ rd.pc = "read" /\ rd.log = "error"
    /\ rd.rec.kind = "record" /\ rd.rec.lacks = "moves"
    /\ katago_process = "proc"

\* C15 - A malformed record is discarded whole: no step of the reader on a
\* record that lacks a required field, for a seen or an unseen session id,
\* changes active_games (its keys, the trees, the analysis, the current nodes).
MalformedDiscardedWhole ==
    [][RdMoved /\ rd'.rec.kind = "record" /\ rd'.rec.lacks # "none" =>
          active_games' = active_games ]_vars

\* C16 - A line without gameId is diagnostic text: when the reader is done
\* with a line that does not start with '{', or with one that parses as a
\* record without gameId, the line has been logged as diagnostic text, and no
\* step of the reader on it has changed the session store.
DiagnosticTextLogged ==
    /\ [](rd.pc = "loop" /\ rd.rec.kind \in {"text", "nogameid"} => rd.log = "stderr")
    /\ [][RdMoved /\ rd'.rec.kind \in {"text", "nogameid"} =>
             UNCHANGED <<active_games, finished_games, showing_game>> ]_vars

\* C17 - End-of-stream handling: a reader whose readline returns nothing while
\* the process reference is held calls check_alive, and when the call is over
\* the reader has left its loop, also when the stream closed before the
\* subprocess was seen to have exited.
EndOfStreamExits ==
    [][\A t \in Threads :
          /\ ReaderPc(t) = "read" /\ eof[t] /\ katago_process = "proc"
                /\ ReaderPc(t)' # "read" => ReaderPc(t)' = "alive" /\ ca'[t].pc = "l117"
          /\ ReaderPc(t) = "alive" /\ ReaderPc(t)' # "alive" => ReaderPc(t)' = "done" ]_vars

(***************************************************************************)
(* Properties of start.                                                    *)
(***************************************************************************)
StartFailed == errors # <<>> /\ errors[1] = <<"start failed">>

\* C18 - Spawn failure leaves the subsystem not started: after a failed spawn
\* exactly one error has been logged, neither reader has been started, no
\* process reference is held, and no later step spawns again or changes any
\* of this.
SpawnFailureNotStarted ==
    /\ [](StartFailed =>
            /\ errors = <<<<"start failed">>>>
            /\ rd.pc = "new" /\ er.pc = "new"
            /\ katago_process = "unset" /\ returncode = "None")
    /\ [][StartFailed => UNCHANGED <<katago_process, rd, er, errors, returncode, eof>>]_vars

\* the spawn failed, and shutdown() was called afterwards
SpawnFailureWitness == StartFailed /\ sd.pc = "error"

(***************************************************************************)
(* The curator line by line, between the lines of stdout: two sessions.    *)
(***************************************************************************)
InitCurator ==
    /\ InitStore
    /\ InitRunning
    /\ env = [ids |-> 2, lists |-> ScriptLists(1), tops |-> Tops, maxLines |-> 0,
              lacks |-> {"none"}, deep |-> 2, maxTime |-> Epoch]

NextCurator ==
    \/ StdoutLine \/ Tick
    \/ BeginAdvance \/ GameEnded \/ MarkFinished \/ EvictFinished \/ ClearShowing
    \/ PaceOrGiveUp \/ EvictStuck \/ SelectRandom \/ PreferEnded \/ StampAdvance

SpecCurator == InitCurator /\ [][NextCurator]_vars

\* the active sessions whose most recently added node is a pass
PassEnded == {g \in Keys(active_games) : last_is_pass(Get(active_games, g))}

\* C19 - Selection policy: an invocation that finds no displayed session and
\* a non-empty active_games sets showing_game to an active session, to one
\* whose last node is a pass if there is any, and resets last_advance; with
\* active_games empty it returns with nothing changed.
SelectionPolicy ==
    [][CurMoved =>
          /\ cur.pc = "idle" /\ showing_game = None => cur'.pc = "select"
          /\ cur.pc = "select" =>
                 IF active_games = <<>>
                 THEN /\ cur'.pc = "idle"
                      /\ UNCHANGED <<active_games, finished_games, showing_game, elapsed>>
                 ELSE /\ cur'.pc = "prefer"
                      /\ showing_game' \in Keys(active_games)
                      /\ UNCHANGED <<active_games, finished_games>>
          /\ cur.pc = "prefer" =>
                 /\ cur'.pc = "stamp"
                 /\ showing_game' \in Keys(active_games)
                 /\ PassEnded # {} => showing_game' \in PassEnded
                 /\ UNCHANGED <<active_games, finished_games>>
          /\ cur.pc = "stamp" =>
                 /\ cur'.pc = "idle"
                 /\ elapsed' = 0
                 /\ UNCHANGED <<active_games, finished_games, showing_game>> ]_vars

\* of two active sessions the one whose last node is a pass was selected, the
\* other one not ending in a pass
SelectionPolicyWitness ==
    /\ cur.pc = "idle" /\ elapsed = 0
    /\ showing_game \in PassEnded
    /\ Keys(active_games) \ PassEnded # {}

\* C20 - Finish-then-evict ordering: an invocation that finds a terminal
\* result on the displayed session puts its id into finished_games; it goes
\* on to delete the session and to clear showing_game only if more than
\* SHOW_RESULT_TIME has passed since last_advance, and otherwise returns with
\* the session active and displayed; a displayed session that is in
\* finished_games leaves active_games or the display at no other step.
FinishThenEvict ==
    [][CurMoved =>
          /\ cur.pc = "ended" /\ cur'.end_result => cur'.pc = "finish"
          /\ cur.pc = "finish" =>
                 /\ finished_games' = finished_games \cup {showing_game}
                 /\ UNCHANGED <<active_games, showing_game>>
                 /\ showing_game \in Keys(active_games)
                 /\ cur'.pc = IF elapsed > SHOW_RESULT_TIME THEN "evict" ELSE "idle"
          /\ cur.pc = "evict" =>
                 /\ showing_game \in finished_games
                 /\ Keys(active_games') = Keys(active_games) \ {showing_game}
                 /\ cur'.pc = "clear"
          /\ /\ showing_game \in finished_games
             /\ showing_game \in Keys(active_games)
             /\ showing_game' # showing_game \/ showing_game \notin Keys(active_games')
             => cur.pc = "evict" ]_vars

\* a finished session is still active and displayed after an invocation, the
\* result not having been shown for SHOW_RESULT_TIME yet
FinishThenEvictWitness ==
    /\ cur.pc = "idle"
    /\ showing_game \in finished_games /\ showing_game \in Keys(active_games)
    /\ elapsed <= SHOW_RESULT_TIME

(***************************************************************************)
(* A crowded buffer: MAX_BUFFER_GAMES + 1 sessions, moves in the first     *)
(* only, and a clock that is read up to just past MOVE_SPEED.              *)
(***************************************************************************)
InitCrowd ==
    /\ InitStore
    /\ InitRunning
    /\ env = [ids |-> MAX_BUFFER_GAMES + 1, lists |-> ScriptLists(1), tops |-> {"D4"},
              maxLines |-> 0, lacks |-> {"none"}, deep |-> 1, maxTime |-> MOVE_SPEED + 1]

\* no session ends or is given up here
NextCrowd ==
    \/ StdoutLine \/ Tick
    \/ BeginAdvance \/ GameEnded \/ PaceOrGiveUp \/ SelectRandom \/ PreferEnded
    \/ StampAdvance

SpecCrowd == InitCrowd /\ [][NextCrowd]_vars

\* the trees of the sessions, without the current nodes
Trees(a) == [i \in DOMAIN a |-> <<a[i].id, a[i].game.nodes>>]

EndCondition(game) ==
    LET c == game.nodes[game.cn]
    IN  is_pass(c) /\ c.analysis # NoAnalysis /\ c.analysis = "pass"

\* C22 - Pacing frame: an invocation that finds a displayed session without
\* terminal result and without game-end condition, at most MOVE_SPEED elapsed
\* and at most MAX_BUFFER_GAMES sessions active, goes through lines 57-60 and
\* 70 and returns with active_games (keys, trees, current nodes),
\* finished_games, showing_game and last_advance as they were.
PacingFrame ==
    [][CurMoved =>
          /\ cur.pc = "idle" /\ showing_game \in Keys(active_games) =>
                 /\ cur'.pc = "ended"
                 /\ UNCHANGED <<active_games, finished_games, showing_game, elapsed>>
          /\ cur.pc = "ended" /\ ~EndCondition(Displayed) /\ ~end_result(Displayed) =>
                 /\ cur'.pc = "pace"
                 /\ UNCHANGED <<active_games, finished_games, showing_game, elapsed>>
          /\ /\ cur.pc = "pace"
             /\ elapsed <= MOVE_SPEED /\ Len(active_games) <= MAX_BUFFER_GAMES
             => /\ cur'.pc = "idle"
                /\ UNCHANGED <<active_games, finished_games, showing_game, elapsed>> ]_vars

\* the invocation is at line 70, the displayed session has a child to go to,
\* and MOVE_SPEED has not elapsed
PacingFrameWitness ==
    /\ cur.pc = "pace"
    /\ elapsed <= MOVE_SPEED /\ Len(active_games) <= MAX_BUFFER_GAMES
    /\ children(Displayed, Displayed.cn) # {}

\* the session showing_game names after the step
DisplayedAfter == Get(active_games', showing_game)

\* exactly one pass by the next player was applied at the current node
TerminatingPass(before, after) ==
    LET n == after.nodes[after.cn]
    IN  /\ after.cn # before.cn
        /\ n.parent = before.cn
        /\ n.move = <<next_player(before.nodes[before.cn]), "pass">>
        /\ Len(after.nodes) <= Len(before.nodes) + 1
        /\ \A i \in DOMAIN before.nodes : after.nodes[i] = before.nodes[i]

RECURSIVE below(_, _, _)
below(game, a, n) ==
    IF n = a THEN TRUE
    ELSE IF n = 0 THEN FALSE
    ELSE below(game, a, game.nodes[n].parent)

CurrentNodePresent ==
    \A k \in Keys(active_games) : Get(active_games, k).cn \in DOMAIN Get(active_games, k).nodes

CurrentNodeDescends ==
    \A k \in Keys(active_games) \cap Keys(active_games') :
        LET before == Get(active_games, k)
            after == Get(active_games', k)
        IN  below(after, before.cn, after.cn)

\* C24 - Current-node integrity: with the stdout reader and the curator
\* interleaved line by line, every active session's current node is a node
\* of its tree, and every step that changes a session's current node moves
\* it to the node itself or to a node below it.
CurrentNodeIntegrity == []CurrentNodePresent /\ [][CurrentNodeDescends]_vars

\* the session ids the curator has removed: every id up to seen was inserted
\* by the record that first named it (each record is handled whole and none
\* lacks a field here), so one that is missing was deleted at line 63 or 78
Evicted == {k \in 1..seen : k \notin Keys(active_games)}

\* C25 - Eviction is permanent: a session id the curator has removed from
\* active_games, by the finished route or by give-up, is never put back by a
\* later stdout record.
EvictionPermanent == [][\A k \in Evicted : k \notin Keys(active_games')]_vars

(***************************************************************************)
(* Drain: the subprocess writes at most MaxLines records and then nothing  *)
(* more; advance_showing_game keeps being called and the clock keeps       *)
(* moving.                                                                 *)
(***************************************************************************)
InitDrain ==
    /\ InitStore
    /\ InitRunning
    /\ env = [ids |-> 2, lists |-> ScriptLists(1), tops |-> Tops, maxLines |-> MaxLines,
              lacks |-> {"none"}, deep |-> 2, maxTime |-> Epoch]

\* the caller of advance_showing_game takes the next step of an invocation,
\* or begins the next invocation
CuratorStep ==
    \/ BeginAdvance \/ GameEnded \/ MarkFinished \/ EvictFinished \/ ClearShowing
    \/ PaceOrGiveUp \/ EvictStuck \/ SelectRandom \/ PreferEnded \/ StampAdvance

NextDrain == StdoutLine \/ Tick \/ CuratorStep

SpecDrain == InitDrain /\ [][NextDrain]_vars /\ WF_vars(CuratorStep) /\ WF_vars(Tick)

Drained == active_games = <<>> /\ showing_game = None

\* C26 - Drain liveness: once no further stdout record arrives, with the
\* curator invoked again and again while the clock advances, every session
\* is eventually removed from active_games, the displayed one by the
\* finished route or by give-up with showing_game cleared, and active_games
\* is empty from then on.
DrainLiveness == <>[]Drained

\* the last record has been read and the sessions the records created have
\* all been removed
DrainWitness == nlines = env.maxLines /\ Evicted # {} /\ Drained

\* the value showing_game had when the invocation under way began: lines
\* 82-88 are reached only when it named no active session, and no other
\* line assigns it before the invocation's last
StartPointer == IF cur.pc \in {"select", "prefer", "stamp"} THEN None ELSE showing_game

\* C27 - Curator frame on non-displayed sessions: a step of
\* advance_showing_game leaves every session other than the one showing_game
\* named when the invocation began in active_games, with its tree and
\* current node as they were, and neither adds it to nor removes it from
\* finished_games.
CuratorFrame ==
    [][CurMoved =>
          \A k \in Keys(active_games) \ {StartPointer} :
              /\ k \in Keys(active_games')
              /\ Get(active_games', k) = Get(active_games, k)
              /\ k \in finished_games' <=> k \in finished_games ]_vars

\* the invocation is about to delete the displayed session while another
\* session is buffered
CuratorFrameWitness ==
    /\ cur.pc \in {"evict", "giveup"}
    /\ Keys(active_games) \ {showing_game} # {}

(***************************************************************************)
(* Shutdown under fair scheduling: the subprocess writes one line at most. *)
(* Every thread that can take a step eventually takes one; the subprocess  *)
(* exits once terminate() has been called, and a stream of an exited       *)
(* subprocess reaches its end.  Nothing obliges the subprocess to write a  *)
(* line, the caller to call shutdown, or a running subprocess to exit.     *)
(***************************************************************************)
InitHalt ==
    /\ InitNotStarted
    /\ env = [ids |-> 1, lists |-> {<<>>}, tops |-> {"D4"}, maxLines |-> 1,
              lacks |-> {"none"}, deep |-> 1, maxTime |-> Epoch]

StdoutRuns ==
    \/ CheckFinished \/ LookUp \/ CreateGame \/ SyncBranch \/ SetAnalysis
    \/ PlaceCurrent \/ HandleError \/ LoopTest
    \/ EndOfStream("out") \/ CheckAlive("out")

StderrRuns == ErrLoopTest \/ EndOfStream("err") \/ CheckAlive("err")

ShutdownRuns == ShutdownClear \/ ShutdownTerminate \/ JoinStderr \/ JoinStdout

FairHalt ==
    /\ WF_vars(StdoutRuns) /\ WF_vars(StderrRuns) /\ WF_vars(ShutdownRuns)
    /\ WF_vars(terminated /\ ProcessExit)
    /\ \A t \in Threads : WF_vars(returncode # "None" /\ CloseStream(t))

SpecHalt == InitHalt /\ [][NextProc]_vars /\ FairHalt

\* C28 - shutdown() terminates: with the subprocess exiting and both streams
\* reaching their end after terminate(), a call of shutdown() on a started
\* engine returns, whatever the readers are doing: reading, inside
\* check_alive, or done after one of them cleared katago_process.
ShutdownReturns ==
    sd.pc \in {"l137", "l138", "join_err", "join_out"} ~> sd.pc = "returned"

\* shutdown() has returned although it found katago_process already cleared
\* by a reader and so never called terminate()
ShutdownReturnsWitness ==
    sd.pc = "returned" /\ ~terminated /\ katago_process = "none"

\* C29 - Supervisor operations are safe in the not-started state: after a
\* start() whose spawn failed, neither shutdown() nor
\* check_alive(exception_if_dead=False) ends in an exception on the process
\* reference that was never set.
NotStartedSafe == StartFailed => sd.pc \notin {"error", "ca_error"}

====
